---- MODULE Spec2Model ----
(***************************************************************************)
(* Model of the two Streamlit dashboards of the repository:                *)
(*   src/streamlit_main_findings.py   the CO2 dashboard                    *)
(*   src/unnamed/part_000             the green-bonds dashboard            *)
(*                                                                         *)
(* Three specifications share the module:                                  *)
(*   SpecData   the pure table functions (cleaning, rankings) applied to   *)
(*              tables drawn from a bounded family;                        *)
(*   SpecCO2    the CO2 page script, re-executed on every interaction;     *)
(*   SpecBonds  one execution of the green-bonds page script.              *)
(*                                                                         *)
(* Cells.  A missing value (NaN) is the empty tuple <<>>.  A number is     *)
(* <<v>>, a year is <<whole, tenths>> (2014.5 is <<2014, 5>>), a text is   *)
(* the tuple of its characters, an iso code is <<"CHN">>.                  *)
(***************************************************************************)
EXTENDS Integers, Sequences, FiniteSets, TLC

VARIABLES
    \* SpecData
    dpc, tbl, prev, rank,
    \* SpecCO2
    pc, cache, fetches, use_default, file, env, page, exc,
    \* SpecBonds
    bpc, project_mod, uploaded_8, uploaded_9, fns, calls, bpage, bexc

dataVars  == <<dpc, tbl, prev, rank>>
co2Vars   == <<pc, cache, fetches, use_default, file, env, page, exc>>
bondsVars == <<bpc, project_mod, uploaded_8, uploaded_9, fns, calls, bpage, bexc>>
vars      == <<dataVars, co2Vars, bondsVars>>

----------------------------------------------------------------------------
(* Bounds of the model *)

\* rows drawn from BaseRows into one table
MaxRows == 2
\* filler rows of one year put in front of a table of SpecData
MaxFill == 11
\* failed fetches of the default dataset in one behaviour
MaxFailures == 1
\* members of the project module
MaxMembers == 2

----------------------------------------------------------------------------
(* Program constants *)

TopN             == 10
PoolN            == 8
CompsN           == 5
PopThreshold     == 1000000
DefaultRankYear  == 2014
TrendStartYear   == 1950

NaN == <<>>
IsNaN(c) == c = <<>>

----------------------------------------------------------------------------
(* Text: str.lower and str.contains on character tuples *)

UpperCase == <<"A","B","C","D","E","F","G","H","I","J","K","L","M",
               "N","O","P","Q","R","S","T","U","V","W","X","Y","Z">>
LowerCase == <<"a","b","c","d","e","f","g","h","i","j","k","l","m",
               "n","o","p","q","r","s","t","u","v","w","x","y","z">>

LowerChar(ch) ==
    IF \E i \in 1..26 : UpperCase[i] = ch
    THEN LowerCase[CHOOSE i \in 1..26 : UpperCase[i] = ch]
    ELSE ch

Lower(s) == [i \in 1..Len(s) |-> LowerChar(s[i])]

StartsWith(s, p) == Len(p) <= Len(s) /\ SubSeq(s, 1, Len(p)) = p

Contains(s, p) ==
    \E i \in 1..(Len(s) - Len(p) + 1) : SubSeq(s, i, i + Len(p) - 1) = p

PatWorld         == <<"W","o","r","l","d">>
PatInternational == <<"I","n","t","e","r","n","a","t","i","o","n","a","l">>

\* d["country"].str.contains("World|International", case=False, na=False)
NameIsAggregate(name) ==
    /\ ~IsNaN(name)
    /\ \/ Contains(Lower(name), Lower(PatWorld))
       \/ Contains(Lower(name), Lower(PatInternational))

AggregateIso == {<<"OWID_WRL">>, <<"OWID_KOS">>}

----------------------------------------------------------------------------
(* Tables *)

ColNames     == {"country", "year", "co2", "co2_per_capita", "population", "iso_code"}
RequiredCols == <<"country", "year", "co2", "co2_per_capita">>

Row(c, y, e, p, n, i) ==
    [country |-> c, year |-> y, co2 |-> e, co2_per_capita |-> p,
     population |-> n, iso_code |-> i]

\* the cells of a column the table does not have are left empty
Project(r, cols) ==
    [country        |-> IF "country" \in cols THEN r.country ELSE NaN,
     year           |-> IF "year" \in cols THEN r.year ELSE NaN,
     co2            |-> IF "co2" \in cols THEN r.co2 ELSE NaN,
     co2_per_capita |-> IF "co2_per_capita" \in cols THEN r.co2_per_capita ELSE NaN,
     population     |-> IF "population" \in cols THEN r.population ELSE NaN,
     iso_code       |-> IF "iso_code" \in cols THEN r.iso_code ELSE NaN]

Table(cols, rows) ==
    [cols |-> cols, rows |-> [i \in 1..Len(rows) |-> Project(rows[i], cols)]]

Take(s, n) == SubSeq(s, 1, IF Len(s) < n THEN Len(s) ELSE n)

----------------------------------------------------------------------------
(* basic clean: dropna(subset=["country","year"]) and astype(int) *)

\* dropna(subset=["year"]): the country left out of the subset
DropNaYearOnly(rows) ==
    LET Keep(r) == ~IsNaN(r.year)
    IN  SelectSeq(rows, Keep)

DropNa(rows) ==
    LET Keep(r) == ~IsNaN(r.country) /\ ~IsNaN(r.year)
    IN  SelectSeq(rows, Keep)

\* int() of a non-negative float truncates: the tenths are dropped
AsInt(y) == <<y[1], 0>>

YearAsInt(rows) == [i \in 1..Len(rows) |-> [rows[i] EXCEPT !.year = AsInt(@)]]

CleanTable(t) == [t EXCEPT !.rows = YearAsInt(DropNa(@))]

YearOf(r) == r.year[1]

----------------------------------------------------------------------------
(* DataFrame.nlargest(n, col): the rows with a value, largest first, rows  *)
(* of equal value in their original order (keep="first"), then the rows    *)
(* without a value, cut to n rows.                                         *)

RECURSIVE InsertDesc(_, _, _)
InsertDesc(x, s, col) ==
    IF s = <<>> THEN <<x>>
    ELSE IF Head(s)[col][1] <= x[col][1] THEN <<x>> \o s
    ELSE <<Head(s)>> \o InsertDesc(x, Tail(s), col)

RECURSIVE SortDesc(_, _)
SortDesc(s, col) ==
    IF s = <<>> THEN <<>>
    ELSE InsertDesc(Head(s), SortDesc(Tail(s), col), col)

\* the same with the smallest first (nsmallest)
NSmallest(rows, n, col) ==
    LET Has(r)  == ~IsNaN(r[col])
        Lacks(r) == IsNaN(r[col])
        desc == SortDesc(SelectSeq(rows, Has), col)
        asc  == [i \in 1..Len(desc) |-> desc[Len(desc) + 1 - i]]
    IN  Take(asc \o SelectSeq(rows, Lacks), n)

NLargest(rows, n, col) ==
    LET Has(r)  == ~IsNaN(r[col])
        Lacks(r) == IsNaN(r[col])
    IN  Take(SortDesc(SelectSeq(rows, Has), col) \o SelectSeq(rows, Lacks), n)

Column(rows, col) == [i \in 1..Len(rows) |-> rows[i][col]]

Columns2(rows, a, b) == [i \in 1..Len(rows) |-> <<rows[i][a], rows[i][b]>>]

----------------------------------------------------------------------------
(* The derived views of the tabs *)

HasYear(rows, y) ==
    LET Keep(r) == YearOf(r) = y
    IN  SelectSeq(rows, Keep)

DropAggregateNames(rows) ==
    LET Keep(r) == ~NameIsAggregate(r.country)
    IN  SelectSeq(rows, Keep)

DropAggregateIso(t, rows) ==
    LET Keep(r) == r.iso_code \notin AggregateIso
    IN  IF "iso_code" \in t.cols THEN SelectSeq(rows, Keep) ELSE rows

\* d_pc[d_pc["population"] > 1_000_000]: a comparison with NaN is False
DropSmallPopulation(t, rows) ==
    LET Keep(r) == ~IsNaN(r.population) /\ r.population[1] > PopThreshold
    IN  IF "population" \in t.cols THEN SelectSeq(rows, Keep) ELSE rows

DropNaCol(rows, col) ==
    LET Keep(r) == ~IsNaN(r[col])
    IN  SelectSeq(rows, Keep)

\* tab8: d
RankRows(t, y) ==
    DropNaCol(DropAggregateIso(t, DropAggregateNames(HasYear(t.rows, y))), "co2")

\* tab8: top
TopEmitters(t, y) ==
    Columns2(NLargest(RankRows(t, y), TopN, "co2"), "country", "co2")

\* tab10: d_pc
PerCapitaRows(t, y) ==
    DropNaCol(
        DropSmallPopulation(t,
            DropAggregateNames(DropAggregateIso(t, HasYear(t.rows, y)))),
        "co2_per_capita")

\* tab10: top_pc
TopPerCapita(t, y) ==
    Columns2(NLargest(PerCapitaRows(t, y), TopN, "co2_per_capita"),
             "country", "co2_per_capita")

\* tab9: pool
ComparisonPool(t, y) ==
    Column(NLargest(HasYear(t.rows, y), PoolN, "co2"), "country")

\* tab9: comps
Comparisons(pool, focus_country) ==
    LET Keep(c) == c # focus_country
    IN  Take(SelectSeq(pool, Keep), CompsN)

Years(t) == {YearOf(t.rows[i]) : i \in 1..Len(t.rows)}

Countries(t) == {t.rows[i].country : i \in 1..Len(t.rows)}

SetMin(S) == CHOOSE x \in S : \A y \in S : x <= y
SetMax(S) == CHOOSE x \in S : \A y \in S : x >= y

----------------------------------------------------------------------------
(* The tables the model draws its inputs from *)

World   == <<"W","o","r","l","d">>
China   == <<"C","h","i","n","a">>
India   == <<"I","n","d","i","a">>
Peru    == <<"P","e","r","u">>
Fiji    == <<"F","i","j","i">>
IntlLow == <<"i","n","t","e","r","n","a","t","i","o","n","a","l">>

PopBig == PopThreshold + 1

BaseRows == <<
    Row(World,   <<2014, 5>>, <<30>>, <<4>>, <<PopBig>>, <<"OWID_WRL">>),
    Row(China,   <<2014, 0>>, <<9>>,  <<7>>, <<PopBig>>, <<"CHN">>),
    Row(IntlLow, <<2014, 0>>, <<5>>,  <<8>>, NaN, NaN),
    Row(Peru,    <<2014, 0>>, <<1>>,  <<5>>, <<PopBig>>, <<"OWID_KOS">>),
    Row(Fiji,    <<2020, 0>>, NaN,    <<9>>, <<PopThreshold>>, <<"FJI">>),
    Row(India,   <<1900, 0>>, <<2>>,  NaN,   <<PopBig>>, <<"IND">>),
    Row(NaN,     <<2014, 0>>, <<3>>,  <<3>>, <<PopBig>>, <<"XXX">>),
    Row(India,   NaN,         <<3>>,  <<1>>, <<PopBig>>, <<"IND">>) >>

RECURSIVE PickRows(_, _)
PickRows(i, S) ==
    IF i > Len(BaseRows) THEN <<>>
    ELSE (IF i \in S THEN <<BaseRows[i]>> ELSE <<>>) \o PickRows(i + 1, S)

Picks == {S \in SUBSET (1..Len(BaseRows)) : Cardinality(S) <= MaxRows}

Filler(k) ==
    [i \in 1..k |->
        Row(<<"F", LowerCase[i]>>, <<DefaultRankYear, 0>>, <<(i * 3) % 7>>, <<(i * 2) % 5>>,
            <<PopBig>>, <<"FIL">>)]

FullCols == {ColNames, ColNames \ {"iso_code", "population"}}

DataTables ==
    {Table(c, Filler(k) \o PickRows(1, S)) : c \in FullCols, k \in 0..MaxFill, S \in Picks}

SliderYears == {1900, TrendStartYear, DefaultRankYear, 2020}

----------------------------------------------------------------------------
(* SpecData: cleaning and the rankings applied to the tables of DataTables *)

DataClean ==
    /\ UNCHANGED <<co2Vars, bondsVars>>
    /\ dpc \in {"raw", "cleaned"}
    /\ prev' = Append(prev, tbl)
    /\ tbl' = CleanTable(tbl)
    /\ dpc' = IF dpc = "raw" THEN "cleaned" ELSE "recleaned"
    /\ UNCHANGED rank

DataRank(y) ==
    /\ UNCHANGED <<co2Vars, bondsVars>>
    /\ dpc \in {"cleaned", "recleaned"}
    /\ rank' = [year   |-> y,
                d      |-> RankRows(tbl, y),
                top    |-> TopEmitters(tbl, y),
                d_pc   |-> PerCapitaRows(tbl, y),
                top_pc |-> TopPerCapita(tbl, y)]
    /\ dpc' = "ranked"
    /\ UNCHANGED <<tbl, prev>>

DataNext ==
    \/ DataClean
    \/ \E y \in SliderYears : DataRank(y)

----------------------------------------------------------------------------
(* SpecCO2: the CO2 page script *)

NoTable == [cols |-> {}, rows |-> <<>>]

NoFile     == [kind |-> "none", table |-> NoTable]
Unparsable == [kind |-> "unparsable", table |-> NoTable]
Csv(t)     == [kind |-> "csv", table |-> t]

UploadCols ==
    FullCols \cup {ColNames \ {"co2_per_capita"}, ColNames \ {"country", "co2"}}

UploadTables == {Table(c, PickRows(1, S)) : c \in UploadCols, S \in Picks}

Uploads == {NoFile, Unparsable} \cup {Csv(t) : t \in UploadTables}

\* what the URL of load_default serves: the dataset, or one that lost a column
RemoteTables ==
    {Table(ColNames, PickRows(1, {1, 2})), Table(ColNames \ {"co2"}, PickRows(1, {1, 2}))}

FetchFailed == [kind |-> "failed", table |-> NoTable]

FetchOutcomes == {FetchFailed} \cup {Csv(t) : t \in RemoteTables}

EnvInit ==
    [co2 |-> NoTable, load |-> "", nloads |-> 0,
     min_year |-> 0, max_year |-> 0, default_focus |-> <<>>,
     year_for_rank |-> 0, d |-> <<>>, top |-> <<>>,
     focus_country |-> <<>>, pool |-> <<>>, comps |-> <<>>, yr_min |-> 0, yr_max |-> 0,
     year_pc |-> 0, d_pc |-> <<>>, top_pc |-> <<>>]

\* the run is over (the script ended, st.stop() or an uncaught exception): the
\* next interaction executes the script again from an empty namespace and page;
\* only the st.cache_data store outlives the run
Finish ==
    /\ UNCHANGED <<dataVars, bondsVars>>
    /\ pc \in {"done", "stopped", "crashed"}
    /\ use_default' = TRUE
    /\ file' = NoFile
    /\ env' = EnvInit
    /\ page' = <<>>
    /\ exc' = ""
    /\ pc' = "idle"
    /\ UNCHANGED <<cache, fetches>>

\* lines 19-20: the toggle and the uploader return what the user has set
Rerun(u, f) ==
    /\ UNCHANGED <<dataVars, bondsVars>>
    /\ pc = "idle"
    /\ u => f = NoFile
    /\ use_default' = u
    /\ file' = IF u THEN NoFile ELSE f
    /\ pc' = "load"
    /\ UNCHANGED <<cache, fetches, env, page, exc>>

\* load_default without the decorator's lookup: every call runs the function
CacheDataNoCache(c, outcome) ==
    IF outcome.kind = "failed"
    THEN [cache |-> c, raised |-> TRUE, fetched |-> 1, hit |-> FALSE, value |-> NoTable]
    ELSE [cache |-> <<outcome.table>>, raised |-> FALSE, fetched |-> 1, hit |-> FALSE,
          value |-> outcome.table]

\* @st.cache_data on load_default: a stored result is returned without running
\* the function; a result is stored only when the function returns
CacheData(c, outcome) ==
    IF c # <<>>
    THEN [cache |-> c, raised |-> FALSE, fetched |-> 0, hit |-> TRUE, value |-> c[1]]
    ELSE IF outcome.kind = "failed"
    THEN [cache |-> c, raised |-> TRUE, fetched |-> 1, hit |-> FALSE, value |-> NoTable]
    ELSE [cache |-> <<outcome.table>>, raised |-> FALSE, fetched |-> 1, hit |-> FALSE,
          value |-> outcome.table]

\* lines 22-27
LoadDefault(outcome) ==
    LET r == CacheData(cache, outcome) IN
    /\ use_default
    /\ (cache = <<>> /\ outcome.kind = "failed") => fetches < MaxFailures
    /\ cache' = r.cache
    /\ fetches' = fetches + r.fetched
    /\ IF r.raised
       THEN /\ page' = Append(page, "error: could not load default dataset")
            /\ env' = [env EXCEPT !.load = "fetch_failed", !.nloads = @ + 1]
            /\ pc' = "stopped"
       ELSE /\ page' = page
            /\ env' = [env EXCEPT !.co2 = r.value, !.nloads = @ + 1,
                                  !.load = IF r.hit THEN "cached" ELSE "fetched"]
            /\ pc' = "validate"
    /\ exc' = exc

\* lines 28-32
LoadUpload ==
    /\ ~use_default
    /\ UNCHANGED <<cache, fetches>>
    /\ IF file.kind = "none"
       THEN /\ page' = Append(page, "info: upload a CSV to continue")
            /\ env' = [env EXCEPT !.load = "no_upload"]
            /\ pc' = "stopped"
            /\ exc' = exc
       ELSE IF file.kind = "unparsable"
       THEN /\ page' = Append(page, "exception")
            /\ env' = [env EXCEPT !.load = "parse_failed", !.nloads = @ + 1]
            /\ pc' = "crashed"
            /\ exc' = "ParserError"
       ELSE /\ page' = page
            /\ env' = [env EXCEPT !.co2 = file.table, !.load = "uploaded", !.nloads = @ + 1]
            /\ pc' = "validate"
            /\ exc' = exc

Load ==
    /\ UNCHANGED <<dataVars, bondsVars>>
    /\ pc = "load"
    /\ UNCHANGED <<use_default, file>>
    /\ \/ \E o \in FetchOutcomes : LoadDefault(o)
       \/ LoadUpload

\* lines 35-38: the required columns the table lacks, in the order of the loop
\* the check of lines 35-38 left out
MissingColsUnchecked(t) == <<>>

MissingCols(t) ==
    LET Lacking(c) == c \notin t.cols
    IN  SelectSeq(RequiredCols, Lacking)

ErrMissing(c) == "error: missing required column " \o c

Validate ==
    /\ UNCHANGED <<dataVars, bondsVars>>
    /\ pc = "validate"
    /\ IF MissingCols(env.co2) # <<>>
       THEN /\ page' = Append(page, ErrMissing(Head(MissingCols(env.co2))))
            /\ pc' = "stopped"
       ELSE /\ page' = page
            /\ pc' = "clean"
    /\ UNCHANGED <<cache, fetches, use_default, file, env, exc>>

\* lines 39-40
Clean ==
    /\ UNCHANGED <<dataVars, bondsVars>>
    /\ pc = "clean"
    /\ env' = [env EXCEPT !.co2 = CleanTable(@)]
    /\ pc' = "bounds"
    /\ UNCHANGED <<cache, fetches, use_default, file, page, exc>>

\* lines 43-50: int() of the minimum of an empty column (NaN) raises ValueError
DefaultFocus(t) == IF China \in Countries(t) THEN China ELSE t.rows[1].country

Bounds ==
    /\ UNCHANGED <<dataVars, bondsVars>>
    /\ pc = "bounds"
    /\ IF env.co2.rows = <<>>
       THEN /\ pc' = "crashed"
            /\ exc' = "ValueError"
            /\ page' = Append(page, "exception")
            /\ env' = env
       ELSE /\ pc' = "tab8"
            /\ exc' = exc
            /\ page' = Append(page, "tabs")
            /\ env' = [env EXCEPT !.min_year = SetMin(Years(env.co2)),
                                  !.max_year = SetMax(Years(env.co2)),
                                  !.default_focus = DefaultFocus(env.co2)]
    /\ UNCHANGED <<cache, fetches, use_default, file>>

\* st.slider raises StreamlitAPIException when its default value lies outside
\* [min_value, max_value]; otherwise it returns the value the user has set
SliderAccepts(lo, hi, v) == lo <= v /\ v <= hi

SliderChoices(lo, hi) == {y \in SliderYears \cup {lo, hi} : lo <= y /\ y <= hi}

\* the range slider returns the default or a range the user has dragged to
RangeChoices(lo, hi, dv) == {dv, <<lo, lo>>, <<lo, hi>>, <<hi, hi>>}

Min2(a, b) == IF a < b THEN a ELSE b
Max2(a, b) == IF a > b THEN a ELSE b

\* line 56: value=min(2014, max_year)
RankYearDefault(e) == Min2(DefaultRankYear, e.max_year)

\* line 95: value=(max(min_year, 1950), max_year)
TrendDefault(e) == <<Max2(e.min_year, TrendStartYear), e.max_year>>

\* line 125: value=max_year
PerCapitaYearDefault(e) == e.max_year

\* lines 58-63, with co2 overwritten by the filtered rows instead of d
Tab8BlockInPlace(e, y) ==
    [e EXCEPT !.year_for_rank = y,
              !.co2 = [@ EXCEPT !.rows = RankRows(e.co2, y)],
              !.d = RankRows(e.co2, y),
              !.top = TopEmitters(e.co2, y)]

\* lines 58-63
Tab8Block(e, y) ==
    [e EXCEPT !.year_for_rank = y,
              !.d = RankRows(e.co2, y),
              !.top = TopEmitters(e.co2, y)]

Tab8Output ==
    <<"tab8.subheader", "tab8.chart", "tab8.metric", "tab8.metric", "tab8.table",
      "tab8.text">>

\* lines 55-84
Tab8 ==
    /\ UNCHANGED <<dataVars, bondsVars>>
    /\ pc = "tab8"
    /\ IF ~SliderAccepts(env.min_year, env.max_year, RankYearDefault(env))
       THEN /\ pc' = "crashed"
            /\ exc' = "StreamlitAPIException"
            /\ page' = Append(page, "exception")
            /\ env' = env
       ELSE /\ \E y \in SliderChoices(env.min_year, env.max_year) :
                    env' = Tab8Block(env, y)
            /\ page' = page \o Tab8Output
            /\ pc' = "tab9"
            /\ exc' = exc
    /\ UNCHANGED <<cache, fetches, use_default, file>>

\* lines 90-94
Tab9Pool(e, c) ==
    [e EXCEPT !.focus_country = c,
              !.pool = ComparisonPool(e.co2, e.year_for_rank),
              !.comps = Comparisons(ComparisonPool(e.co2, e.year_for_rank), c)]

\* lines 88-117
Tab9 ==
    /\ UNCHANGED <<dataVars, bondsVars>>
    /\ pc = "tab9"
    /\ \E c \in Countries(env.co2) :
        LET e1 == Tab9Pool(env, c)
            dv == TrendDefault(env)
        IN  IF ~(SliderAccepts(env.min_year, env.max_year, dv[1])
                 /\ SliderAccepts(env.min_year, env.max_year, dv[2]))
            THEN /\ pc' = "crashed"
                 /\ exc' = "StreamlitAPIException"
                 /\ page' = page \o <<"tab9.subheader", "tab9.caption", "exception">>
                 /\ env' = e1
            ELSE /\ \E r \in RangeChoices(env.min_year, env.max_year, dv) :
                        env' = [e1 EXCEPT !.yr_min = r[1], !.yr_max = r[2]]
                 /\ page' = page \o <<"tab9.subheader", "tab9.caption", "tab9.chart",
                                      "tab9.text">>
                 /\ pc' = "tab10"
                 /\ exc' = exc
    /\ UNCHANGED <<cache, fetches, use_default, file>>

\* lines 129-138
Tab10Block(e, y) ==
    [e EXCEPT !.year_pc = y,
              !.d_pc = PerCapitaRows(e.co2, y),
              !.top_pc = TopPerCapita(e.co2, y)]

\* lines 121-160; the default max_year is always inside the slider's range
Tab10 ==
    /\ UNCHANGED <<dataVars, bondsVars>>
    /\ pc = "tab10"
    /\ SliderAccepts(env.min_year, env.max_year, PerCapitaYearDefault(env))
    /\ \E y \in SliderChoices(env.min_year, env.max_year) :
            env' = Tab10Block(env, y)
    /\ page' = page \o <<"tab10.subheader", "tab10.chart", "tab10.table", "tab10.text">>
    /\ pc' = "done"
    /\ UNCHANGED <<cache, fetches, use_default, file, exc>>

CO2Next ==
    \/ \E u \in BOOLEAN, f \in Uploads : Rerun(u, f)
    \/ Finish
    \/ Load
    \/ Validate
    \/ Clean
    \/ Bounds
    \/ Tab8
    \/ Tab9
    \/ Tab10

----------------------------------------------------------------------------
(* SpecBonds: the green-bonds page script *)

\* the attribute names a project module may define, as dir() sorts them
MemberNames == <<
    <<"S","e","c","t","i","o","n","8","a">>,
    <<"p","l","o","t","_","s","8">>,
    <<"p","l","o","t","_","s","9">>,
    <<"p","l","o","t","_","s","e","c","t","i","o","n","8">>,
    <<"p","l","o","t","_","x">>,
    <<"s","e","c","t","i","o","n","9","a">> >>

Prefix8 == <<"s","e","c","t","i","o","n","8">>
Prefix9 == <<"s","e","c","t","i","o","n","9">>
PrefixPlot == <<"p","l","o","t">>

Fallback8 == <<
    <<"p","l","o","t","_","s","e","c","t","i","o","n","8","_","g","r","a","p","h","1">>,
    <<"p","l","o","t","_","s","e","c","t","i","o","n","8","_","g","r","a","p","h","2">>,
    <<"p","l","o","t","_","s","e","c","t","i","o","n","8">>,
    <<"p","l","o","t","_","s","8">> >>

Fallback9 == <<
    <<"p","l","o","t","_","s","e","c","t","i","o","n","9","_","g","r","a","p","h","1">>,
    <<"p","l","o","t","_","s","e","c","t","i","o","n","9","_","g","r","a","p","h","2">>,
    <<"p","l","o","t","_","s","e","c","t","i","o","n","9">>,
    <<"p","l","o","t","_","s","9">> >>

\* kind: a def ("function"), a functools.partial ("partial": callable, no __name__),
\* or a value that cannot be called ("data"); does: what calling it does
MemberAttrs ==
    {[kind |-> "function", does |-> d] : d \in {"figure", "none", "TypeError", "Exception"}}
    \cup {[kind |-> "partial", does |-> "none"], [kind |-> "data", does |-> "none"]}

RECURSIVE PickMembers(_, _, _)
PickMembers(i, S, a) ==
    IF i > Len(MemberNames) THEN <<>>
    ELSE (IF i \in S
          THEN <<[id |-> i, name |-> MemberNames[i], kind |-> a[i].kind, does |-> a[i].does]>>
          ELSE <<>>) \o PickMembers(i + 1, S, a)

NoModule == [ok |-> FALSE, members |-> <<>>]

MemberSets == {X \in SUBSET (1..Len(MemberNames)) : Cardinality(X) <= MaxMembers}

Modules ==
    {NoModule} \cup
    UNION {{[ok |-> TRUE, members |-> PickMembers(1, S, a)] : a \in [S -> MemberAttrs]} :
            S \in MemberSets}

UploadKinds == {"none", "unparsable", "one_column", "table"}

El(tag) == [tag |-> tag, fn |-> 0]
ElFn(tag, id) == [tag |-> tag, fn |-> id]

\* lines 36-43 and 110
TryImport ==
    /\ UNCHANGED <<dataVars, co2Vars>>
    /\ bpc = "import"
    /\ bpage' = IF project_mod.ok THEN bpage
                ELSE Append(bpage, El("info: could not import"))
    /\ bpc' = "find"
    /\ UNCHANGED <<project_mod, uploaded_8, uploaded_9, fns, calls, bexc>>

\* line 52
NameMatches(name, prefix) ==
    \/ StartsWith(Lower(name), prefix)
    \/ StartsWith(Lower(name), PrefixPlot) /\ Contains(Lower(name), prefix)

\* lines 45-59: inspect.getmembers(mod, inspect.isfunction) keeps the defs
FindPlotFunctions(mod, prefix) ==
    LET Found(m) == m.kind = "function" /\ NameMatches(m.name, prefix)
    IN  IF ~mod.ok THEN <<>> ELSE SelectSeq(mod.members, Found)

IsCallable(m) == m.kind \in {"function", "partial"}

HasName(m) == m.kind = "function"

\* getattr(project_mod, name, None) for each name of the list, the callables kept
RECURSIVE FallbackFunctions(_, _)
FallbackFunctions(mod, names) ==
    IF names = <<>> THEN <<>>
    ELSE LET Named(m) == m.name = Head(names) /\ IsCallable(m)
         IN  SelectSeq(mod.members, Named) \o FallbackFunctions(mod, Tail(names))

\* lines 112-125
SectionFunctions(mod, prefix, fallback) ==
    IF mod.ok /\ FindPlotFunctions(mod, prefix) = <<>>
    THEN FallbackFunctions(mod, fallback)
    ELSE FindPlotFunctions(mod, prefix)

FindFunctions ==
    /\ UNCHANGED <<dataVars, co2Vars>>
    /\ bpc = "find"
    /\ fns' = [s8 |-> SectionFunctions(project_mod, Prefix8, Fallback8),
               s9 |-> SectionFunctions(project_mod, Prefix9, Fallback9)]
    /\ bpc' = "upload8"
    /\ UNCHANGED <<project_mod, uploaded_8, uploaded_9, calls, bpage, bexc>>

\* lines 133-139 and 165-171: everything the try block raises is reported
UploadOutput(kind, sec) ==
    CASE kind = "none"       -> <<>>
      [] kind = "unparsable" -> <<El(sec \o ".error: could not parse CSV")>>
      [] kind = "one_column" -> <<El(sec \o ".dataframe"),
                                  El(sec \o ".error: could not parse CSV")>>
      [] kind = "table"      -> <<El(sec \o ".dataframe"), El(sec \o ".upload chart")>>

Upload8 ==
    /\ UNCHANGED <<dataVars, co2Vars>>
    /\ bpc = "upload8"
    /\ bpage' = bpage \o <<El("s8.header")>> \o UploadOutput(uploaded_8, "s8")
    /\ bpc' = "plots8"
    /\ UNCHANGED <<project_mod, uploaded_8, uploaded_9, fns, calls, bexc>>

Upload9 ==
    /\ UNCHANGED <<dataVars, co2Vars>>
    /\ bpc = "upload9"
    /\ bpage' = bpage \o <<El("s9.header")>> \o UploadOutput(uploaded_9, "s9")
    /\ bpc' = "plots9"
    /\ UNCHANGED <<project_mod, uploaded_8, uploaded_9, fns, calls, bexc>>

\* lines 61-81: what run_and_capture_plot(fn) puts on the page
RunAndCapturePlot(m, sec) ==
    CASE m.does \in {"figure", "none"} -> <<ElFn(sec \o ".plot", m.id)>>
      [] m.does = "TypeError"          -> <<>>
      [] m.does = "Exception"          -> <<ElFn(sec \o ".warning: error when running", m.id)>>

\* lines 143-145 and 175-177: the loop over the functions of a section, as
\* [page, calls, exc]; fn.__name__ raises AttributeError on a callable without one
RECURSIVE RunFunctions(_, _, _)
RunFunctions(list, sec, acc) ==
    IF list = <<>> THEN acc
    ELSE LET m == Head(list) IN
         IF ~HasName(m)
         THEN [acc EXCEPT !.page = Append(@, El("exception")), !.exc = "AttributeError"]
         ELSE RunFunctions(Tail(list), sec,
                [acc EXCEPT !.page = @ \o <<ElFn(sec \o ".figure", m.id)>>
                                       \o RunAndCapturePlot(m, sec),
                            !.calls = Append(@, [fn |-> m.id, sec |-> sec, does |-> m.does])])

\* lines 141-157 and 173-189
SectionPlots(list, sec, acc) ==
    IF list # <<>>
    THEN LET r == RunFunctions(list, sec,
                    [acc EXCEPT !.page = Append(@, El(sec \o ".info: using detected functions"))])
         IN  IF r.exc # "" THEN r
             ELSE [r EXCEPT !.page = Append(@, El(sec \o ".interpretation"))]
    ELSE [acc EXCEPT !.page = @ \o <<El(sec \o ".warning: no plotting functions detected"),
                                     El(sec \o ".demo chart"),
                                     El(sec \o ".interpretation")>>]

Plots8 ==
    /\ UNCHANGED <<dataVars, co2Vars>>
    /\ bpc = "plots8"
    /\ LET r == SectionPlots(fns.s8, "s8", [page |-> bpage, calls |-> calls, exc |-> bexc])
       IN  /\ bpage' = r.page
           /\ calls' = r.calls
           /\ bexc' = r.exc
           /\ bpc' = IF r.exc # "" THEN "crashed" ELSE "upload9"
    /\ UNCHANGED <<project_mod, uploaded_8, uploaded_9, fns>>

Plots9 ==
    /\ UNCHANGED <<dataVars, co2Vars>>
    /\ bpc = "plots9"
    /\ LET r == SectionPlots(fns.s9, "s9", [page |-> bpage, calls |-> calls, exc |-> bexc])
       IN  /\ bpage' = r.page
           /\ calls' = r.calls
           /\ bexc' = r.exc
           /\ bpc' = IF r.exc # "" THEN "crashed" ELSE "section10"
    /\ UNCHANGED <<project_mod, uploaded_8, uploaded_9, fns>>

\* lines 194-219
Section10 ==
    /\ UNCHANGED <<dataVars, co2Vars>>
    /\ bpc = "section10"
    /\ bpage' = bpage \o <<El("s10.header"), El("s10.policy"), El("s10.takeaways"),
                           El("footer")>>
    /\ bpc' = "done"
    /\ UNCHANGED <<project_mod, uploaded_8, uploaded_9, fns, calls, bexc>>

BondsNext ==
    \/ TryImport
    \/ FindFunctions
    \/ Upload8
    \/ Plots8
    \/ Upload9
    \/ Plots9
    \/ Section10

----------------------------------------------------------------------------
(* The three specifications *)

DataInit ==
    /\ dpc = "raw" /\ tbl \in DataTables /\ prev = <<>> /\ rank = <<>>
    /\ pc = "off" /\ cache = <<>> /\ fetches = 0 /\ use_default = TRUE
    /\ file = NoFile /\ env = EnvInit /\ page = <<>> /\ exc = ""
    /\ bpc = "off" /\ project_mod = NoModule /\ uploaded_8 = "none" /\ uploaded_9 = "none"
    /\ fns = [s8 |-> <<>>, s9 |-> <<>>] /\ calls = <<>> /\ bpage = <<>> /\ bexc = ""

CO2Init ==
    /\ dpc = "off" /\ tbl = NoTable /\ prev = <<>> /\ rank = <<>>
    /\ pc = "idle" /\ cache = <<>> /\ fetches = 0 /\ use_default = TRUE
    /\ file = NoFile /\ env = EnvInit /\ page = <<>> /\ exc = ""
    /\ bpc = "off" /\ project_mod = NoModule /\ uploaded_8 = "none" /\ uploaded_9 = "none"
    /\ fns = [s8 |-> <<>>, s9 |-> <<>>] /\ calls = <<>> /\ bpage = <<>> /\ bexc = ""

BondsInit ==
    /\ dpc = "off" /\ tbl = NoTable /\ prev = <<>> /\ rank = <<>>
    /\ pc = "off" /\ cache = <<>> /\ fetches = 0 /\ use_default = TRUE
    /\ file = NoFile /\ env = EnvInit /\ page = <<>> /\ exc = ""
    /\ bpc = "import" /\ project_mod \in Modules
    /\ uploaded_8 \in UploadKinds /\ uploaded_9 \in UploadKinds
    /\ fns = [s8 |-> <<>>, s9 |-> <<>>] /\ calls = <<>> /\ bpage = <<>> /\ bexc = ""

SpecData  == DataInit /\ [][DataNext]_vars
SpecCO2   == CO2Init /\ [][CO2Next]_vars
SpecBonds == BondsInit /\ [][BondsNext]_vars

----------------------------------------------------------------------------
(* Claims *)

Count(s, x) == Cardinality({i \in 1..Len(s) : s[i] = x})

Elements(s) == {s[i] : i \in 1..Len(s)}

LacksRequired(t) == \E i \in 1..Len(RequiredCols) : RequiredCols[i] \notin t.cols

LoadedTable == IF use_default THEN cache[1] ELSE file.table

\* C1: a render whose default-dataset fetch raises, or whose loaded table lacks
\* a required column, emits one inline error and stops before cleaning: the
\* page holds nothing but that error, and the table is the one that was loaded.
C1_FatalInputHalts ==
    /\ env.load = "fetch_failed" =>
          /\ pc = "stopped"
          /\ page = <<"error: could not load default dataset">>
          /\ env.co2 = NoTable
    /\ (env.load \in {"fetched", "cached", "uploaded"} /\ pc # "validate"
            /\ LacksRequired(env.co2)) =>
          /\ pc = "stopped"
          /\ Len(page) = 1
          /\ \E i \in 1..Len(RequiredCols) :
                /\ RequiredCols[i] \notin env.co2.cols
                /\ page[1] = ErrMissing(RequiredCols[i])
          /\ env.co2 = LoadedTable
          /\ env.min_year = 0 /\ env.top = <<>> /\ env.pool = <<>> /\ env.top_pc = <<>>

C1_Witness ==
    /\ pc = "stopped"
    /\ env.load = "uploaded"
    /\ \E i \in 1..Len(env.co2.rows) : IsNaN(env.co2.rows[i].year)
    /\ page = <<ErrMissing("co2_per_capita")>>

\* C2: in both dashboards an uploaded CSV that cannot be parsed is reported by
\* an inline error message and never escapes as an uncaught exception.
C2_UploadParseErrorCaught ==
    /\ env.load = "parse_failed" =>
          /\ exc = ""
          /\ "error: could not parse CSV" \in Elements(page)
    /\ (uploaded_8 = "unparsable" /\ bpc \in {"plots8", "upload9", "plots9", "section10", "done"}) =>
          /\ bexc = ""
          /\ El("s8.error: could not parse CSV") \in Elements(bpage)
    /\ (uploaded_9 = "unparsable" /\ bpc \in {"plots9", "section10", "done"}) =>
          /\ bexc = ""
          /\ El("s9.error: could not parse CSV") \in Elements(bpage)

EligibleEmitters(t, y) ==
    {i \in 1..Len(t.rows) :
        /\ t.rows[i].year = <<y, 0>>
        /\ ~NameIsAggregate(t.rows[i].country)
        /\ "iso_code" \in t.cols => t.rows[i].iso_code \notin AggregateIso
        /\ ~IsNaN(t.rows[i].co2)}

EligiblePerCapita(t, y) ==
    {i \in 1..Len(t.rows) :
        /\ t.rows[i].year = <<y, 0>>
        /\ ~NameIsAggregate(t.rows[i].country)
        /\ "iso_code" \in t.cols => t.rows[i].iso_code \notin AggregateIso
        /\ "population" \in t.cols =>
              (~IsNaN(t.rows[i].population) /\ t.rows[i].population[1] > PopThreshold)
        /\ ~IsNaN(t.rows[i].co2_per_capita)}

RankingHolds(top, t, E, col) ==
    /\ Len(top) = Min2(TopN, Cardinality(E))
    /\ \A j \in 1..(Len(top) - 1) : top[j][2][1] >= top[j + 1][2][1]
    /\ \A j \in 1..Len(top) : \E i \in E : top[j] = <<t.rows[i].country, t.rows[i][col]>>
    /\ Len(top) > 0 =>
          LET m == top[Len(top)][2][1]
          IN  Cardinality({i \in E : t.rows[i][col][1] > m})
                = Cardinality({j \in 1..Len(top) : top[j][2][1] > m})

\* C3: for a cleaned table and a selected year, the Top Emitters ranking and the
\* Per-capita ranking are ordered by value, largest first, hold min(10, E) rows
\* of the E eligible rows, and leave out no eligible row of a larger value than
\* the smallest one returned.
C3_RankingTopN ==
    dpc = "ranked" =>
        /\ RankingHolds(rank.top, tbl, EligibleEmitters(tbl, rank.year), "co2")
        /\ RankingHolds(rank.top_pc, tbl, EligiblePerCapita(tbl, rank.year), "co2_per_capita")

C3_Witness ==
    /\ dpc = "ranked"
    /\ Cardinality(EligibleEmitters(tbl, rank.year)) > TopN
    /\ Len(rank.top) = TopN
    /\ Len(rank.top_pc) = TopN
    /\ \E i \in 1..Len(tbl.rows) : tbl.rows[i].country = World /\ tbl.rows[i].year = <<rank.year, 0>>

IsAggregateRow(t, r) ==
    \/ NameIsAggregate(r.country)
    \/ "iso_code" \in t.cols /\ r.iso_code \in AggregateIso

\* C4: no aggregate row (name containing World or International, iso_code
\* OWID_WRL or OWID_KOS) of the selected year is in the top-10 emitters, in the
\* top-10 per capita, or in the pool of top emitters of the trends tab.
C4_AggregatesExcluded ==
    pc \in {"tab10", "done"} =>
        \A i \in 1..Len(env.co2.rows) :
            LET r == env.co2.rows[i] IN
            IsAggregateRow(env.co2, r) =>
                /\ YearOf(r) = env.year_for_rank =>
                      /\ \A j \in 1..Len(env.top) : env.top[j][1] # r.country
                      /\ \A j \in 1..Len(env.pool) : env.pool[j] # r.country
                /\ (pc = "done" /\ YearOf(r) = env.year_pc) =>
                      \A j \in 1..Len(env.top_pc) : env.top_pc[j][1] # r.country

\* C5: the cleaned table has no row with a missing country or year and only
\* integer years, and cleaning it again changes nothing.
C5_CleanIdempotent ==
    /\ dpc \in {"cleaned", "recleaned"} =>
          \A i \in 1..Len(tbl.rows) :
              /\ ~IsNaN(tbl.rows[i].country)
              /\ ~IsNaN(tbl.rows[i].year)
              /\ tbl.rows[i].year[2] = 0
    /\ dpc = "recleaned" => tbl = prev[2]

C5_Witness ==
    /\ dpc = "recleaned"
    /\ Len(tbl.rows) > 0
    /\ Len(prev[1].rows) > Len(tbl.rows)
    /\ \E i \in 1..Len(prev[1].rows) :
          ~IsNaN(prev[1].rows[i].year) /\ prev[1].rows[i].year[2] # 0

SectionCalls(sec) ==
    LET Of(c) == c.sec = sec
        cs == SelectSeq(calls, Of)
    IN  [k \in 1..Len(cs) |-> cs[k].fn]

SectionRendered(sec, list) ==
    IF list = <<>>
    THEN /\ Count(bpage, El(sec \o ".warning: no plotting functions detected")) = 1
         /\ Count(bpage, El(sec \o ".demo chart")) = 1
         /\ SectionCalls(sec) = <<>>
    ELSE /\ Count(bpage, El(sec \o ".demo chart")) = 0
         /\ SectionCalls(sec) = [k \in 1..Len(list) |-> list[k].id]

\* C6: a section without plotting functions shows a warning and the demo chart
\* once and calls no user function; a section with functions shows no demo
\* chart and calls each function once, in list order; either way the page is
\* rendered through Section 9, Section 10 and the footer.
C6_FallbackOrFunctions ==
    /\ bpc # "crashed"
    /\ bpc \in {"upload9", "plots9", "section10", "done"} => SectionRendered("s8", fns.s8)
    /\ bpc \in {"section10", "done"} => SectionRendered("s9", fns.s9)
    /\ bpc = "done" => Count(bpage, El("footer")) = 1

\* C7: whatever a plotting function raises when called, the exception does not
\* leave run_and_capture_plot and a warning naming the failure is shown.
C7_FailureSurfaced ==
    /\ bexc \notin {"TypeError", "Exception"}
    /\ \A k \in 1..Len(calls) :
          calls[k].does \in {"TypeError", "Exception"} =>
              ElFn(calls[k].sec \o ".warning: error when running", calls[k].fn)
                  \in Elements(bpage)

\* C8: within one render the dataset is loaded once, and no step after the
\* cleaning step changes the table co2.
C8_TableNotMutated ==
    [][/\ env'.nloads <= 1
       /\ pc \in {"bounds", "tab8", "tab9", "tab10"} => env'.co2 = env.co2]_vars

C8_Witness ==
    /\ pc = "done"
    /\ env.nloads = 1
    /\ Len(env.d) < Len(env.co2.rows)
    /\ Len(env.d_pc) < Len(env.co2.rows)
    /\ Len(env.pool) > Len(env.comps)

\* C9: once a fetch of the default dataset has succeeded no later render
\* fetches again and each render with the toggle on gets the stored table; a
\* failed fetch stores nothing, so the next render with the toggle on fetches;
\* a render with the toggle off neither fetches nor touches the store and takes
\* its table from the uploaded file.
C9_FetchCached ==
    [][/\ cache # <<>> => (fetches' = fetches /\ cache' = cache)
       /\ (pc = "load" /\ use_default /\ cache # <<>>) =>
              (env'.co2 = cache[1] /\ env'.load = "cached")
       /\ (pc = "load" /\ use_default /\ cache = <<>>) => fetches' = fetches + 1
       /\ env'.load = "fetch_failed" => cache' = <<>>
       /\ ~use_default => (fetches' = fetches /\ cache' = cache)
       /\ (pc = "load" /\ ~use_default /\ file.kind = "csv") => env'.co2 = file.table]_vars

C9_Witness ==
    /\ env.load = "cached"
    /\ fetches = 2
    /\ pc = "done"

\* C10: for every table that passes column validation min_year and max_year
\* are defined with min_year <= max_year and the default of every year slider
\* lies inside [min_year, max_year].
C10_SliderDefaultsInRange ==
    /\ exc \notin {"ValueError", "StreamlitAPIException"}
    /\ pc \in {"tab8", "tab9", "tab10", "done"} =>
          /\ env.min_year <= env.max_year
          /\ SliderAccepts(env.min_year, env.max_year, Min2(DefaultRankYear, env.max_year))
          /\ SliderAccepts(env.min_year, env.max_year, Max2(env.min_year, TrendStartYear))
          /\ SliderAccepts(env.min_year, env.max_year, env.max_year)

====
